---- MODULE Spec2Model ----
(***************************************************************************)
(* Peer discovery of libredrop-net (src/src/peer_discovery.rs): the        *)
(* DiscoveryServer future (poll_requests, on_packet_recv,                  *)
(* poll_send_responses, make_response) and the discover_peers stream.      *)
(*                                                                         *)
(* Datagram payloads are sequences of naturals.  Socket addresses, public  *)
(* keys and secret keys are naturals.                                      *)
(***************************************************************************)
EXTENDS Naturals, Sequences, FiniteSets

(* ------------------------------ bounds -------------------------------- *)
\* longest address list handed to DiscoveryServer::new
MaxAddrs == 2
\* datagrams the other peers send on the LAN of a server alone
MaxDatagrams == 2
\* datagrams the other peers send on the LAN while discover_peers runs
MaxStrays == 1

\* calls of discover_peers
MaxCalls == 2
\* broadcast addresses broadcast_addrs returns to one call
MaxTargets == 2
\* datagrams waiting or queued in the server at one time, in an endless run
MaxPending == 2

(* ----------------------------- universe ------------------------------- *)
\* socket addresses a server may advertise
AdvAddrs == {11, 12}
\* broadcast addresses of the local interfaces; the server's socket receives
\* what is sent to an address of ServerSubnet, nobody listens on the others
BroadcastAddrs == {31, 32}
ServerSubnet == {31}
\* public keys the other peers put in their Requests; sealing against a key
\* of UnsealableKeys is reported as an error by the crypto library
PeerKeys == {1, 2}
UnsealableKeys == {9}
\* the public key gen_encrypt_keypair returns to the n-th call of
\* discover_peers: a fresh one each time
GenKey(n) == 4 + n
GenKeys == {GenKey(n) : n \in 1..(MaxCalls + 1)}
Keys == PeerKeys \cup UnsealableKeys \cup GenKeys

\* the secret key generated together with public key pk
SecretOf(pk) == pk + 50
SecretKeys == {SecretOf(k) : k \in Keys}

RECURSIVE SeqsUpTo(_, _)
SeqsUpTo(S, n) ==
    IF n = 0 THEN {<<>>}
    ELSE LET shorter == SeqsUpTo(S, n - 1)
         IN  shorter \cup {Append(s, x) : s \in shorter, x \in S}

RECURSIVE Reverse(_)
Reverse(s) == IF s = <<>> THEN <<>> ELSE Append(Reverse(Tail(s)), Head(s))

Front(s) == SubSeq(s, 1, Len(s) - 1)
Last(s) == s[Len(s)]

(* --------------------------- wire protocol ---------------------------- *)
\* bincode's variant index of DiscoveryMsg::Request and ::Response
REQUEST_TAG == 0
RESPONSE_TAG == 1

Request(pk) == [type |-> "Request", pk |-> pk, addrs |-> <<>>]
Response(addrs) == [type |-> "Response", pk |-> 0, addrs |-> addrs]
DecodeError == [type |-> "Error", pk |-> 0, addrs |-> <<>>]

\* bincode::serialize of a DiscoveryMsg: variant index, then the key, or the
\* element count followed by the elements
serialize(msg) ==
    IF msg.type = "Request" THEN <<REQUEST_TAG, msg.pk>>
    ELSE <<RESPONSE_TAG, Len(msg.addrs)>> \o msg.addrs

\* bincode::deserialize into a DiscoveryMsg; bytes after the value are ignored
deserialize(buf) ==
    IF Len(buf) = 0 THEN DecodeError
    ELSE IF buf[1] = REQUEST_TAG
    THEN IF Len(buf) >= 2 /\ buf[2] \in Keys THEN Request(buf[2]) ELSE DecodeError
    ELSE IF buf[1] = RESPONSE_TAG
    THEN IF Len(buf) >= 2 /\ Len(buf) >= 2 + buf[2]
         THEN Response(SubSeq(buf, 3, 2 + buf[2]))
         ELSE DecodeError
    ELSE DecodeError

\* the datagram is a well-formed Request
IsRequest(buf) == deserialize(buf).type = "Request"

serialized_request(pk) == serialize(Request(pk))

\* PublicEncryptKey::anonymously_encrypt: the serialized message in a sealed
\* box for pk; the box header is no variant index
BoxHeader(pk) == 100 + pk
anonymously_encrypt(pk, msg) ==
    IF pk \in UnsealableKeys THEN [ok |-> FALSE, buf |-> <<>>]
    ELSE [ok |-> TRUE, buf |-> <<BoxHeader(pk)>> \o serialize(msg)]

\* SecretEncryptKey::anonymously_decrypt: opens a box sealed for pk with the
\* secret key of pk, then deserializes
anonymously_decrypt(sk, buf, pk) ==
    IF Len(buf) >= 1 /\ buf[1] = BoxHeader(pk) /\ sk = SecretOf(pk)
    THEN deserialize(Tail(buf))
    ELSE DecodeError

(* ------------------------------- state -------------------------------- *)
VARIABLES
    bound,        \* a DiscoveryServer has been constructed: its socket is bound
    cfg_addrs,    \* the list given to DiscoveryServer::new
    our_addrs,    \* DiscoveryServer.our_addrs
    clients,      \* DiscoveryServer.clients, last element = top of the Vec
    listener,     \* datagrams waiting in the receive queue of DiscoveryServer.listener
    ret,          \* what the last poll of the server returned ("none" before the first)
    sent,         \* every datagram the server socket has sent, in order
    nid,          \* datagrams that reached the server socket so far
    log,          \* the buffers of the warn! records the server has written, in order
    noise,        \* datagrams the other peers may still send
    h_accepted,   \* (sender, key, id) of every well-formed Request received, in order
    h_dropped,    \* ids of the entries dropped because sealing failed
    h_clients0,   \* clients when the last poll began
    h_listener0,  \* listener when the last poll began
    h_drained,    \* datagrams received by the last poll, in order
    h_flush0,     \* clients when poll_requests of the last poll returned
    h_mark,       \* Len(sent) when the last poll began
    h_blocked,    \* a send of the last poll reported would-block
    h_io,         \* the I/O error a socket call of the last poll returned, or "none"
    h_io_at,      \* the call that returned it: "recv", "send" or "none"
    ifaces,       \* broadcast addresses of the host's IPv4 interfaces, in get_if_addrs order
    dp,           \* the stream returned by discover_peers: "none", "error", "stream", "ended"
    our_pk,       \* discover_peers: public key of the call (0 before the first call)
    our_sk,       \* discover_peers: secret key of the call
    request,      \* discover_peers: the serialized request
    broadcast_to, \* targets the stream has not taken yet
    stage,        \* the branch in flight: "next", "send", "recv"
    sock,         \* address of the branch's socket (0 = no socket)
    target,       \* broadcast address of the branch in flight (0 = none)
    sock_queue,   \* datagrams waiting in the receive queue of the branch's socket
    h_arrivals,   \* every datagram that reached the last socket opened, in order
    items,        \* what the stream of the current call has yielded, in order
    calls,        \* calls of discover_peers so far
    calls_left,   \* calls of discover_peers the application will still make
    nsock,        \* sockets opened by discover_peers so far
    err_items,    \* what is left of the vec of stream::iter_result
    h_keys,       \* public key of every call so far, in order
    h_targets,    \* what broadcast_addrs returned to the current call
    h_requests,   \* the Request datagrams the current call has sent, in order
    h_reads,      \* the datagrams the branches of the current call have read, in order
    h_no_addrs,   \* broadcast_addrs failed in the current call
    h_opened,     \* sockets the current call has opened
    h_strays      \* datagrams of other peers that reached a branch socket of this call

srv_vars == <<bound, cfg_addrs, our_addrs, clients, listener, ret, sent, nid, log>>
hist_vars == <<h_accepted, h_dropped, h_clients0, h_listener0, h_drained, h_flush0,
               h_mark, h_blocked, h_io, h_io_at>>
dp_vars == <<dp, our_pk, our_sk, request, broadcast_to, stage, sock, target, items,
             calls, calls_left, nsock, err_items, h_keys, h_targets, h_requests, h_reads,
             h_no_addrs, h_opened, h_strays>>
cli_vars == <<dp_vars, sock_queue, h_arrivals>>
env_vars == <<noise, ifaces>>
vars == <<srv_vars, env_vars, hist_vars, cli_vars>>

\* the error a socket operation may return besides would-block
IoErrors == {"ConnectionReset"}

(* --------------------------- DiscoveryServer -------------------------- *)
\* DiscoveryServer::new
new(addrs) ==
    /\ bound = TRUE
    /\ cfg_addrs = addrs
    /\ our_addrs = addrs
    /\ clients = <<>>
    /\ listener = <<>>
    /\ ret = "none"

\* make_response sealing the list in another order
make_response_reordered(their_pk) ==
    anonymously_encrypt(their_pk, Response(Reverse(our_addrs)))

\* make_response: Some(sealed Response(our_addrs)) or None
make_response(their_pk) == anonymously_encrypt(their_pk, Response(our_addrs))

\* on_packet_recv skipping a requester that is already queued
on_packet_recv_dedup(cl, buf, sender_addr, id) ==
    LET msg == deserialize(buf)
    IN  IF /\ msg.type = "Request"
           /\ \A i \in 1..Len(cl) : ~(cl[i].addr = sender_addr /\ cl[i].pk = msg.pk)
        THEN Append(cl, [addr |-> sender_addr, pk |-> msg.pk, id |-> id])
        ELSE cl

\* on_packet_recv queueing whatever decodes
on_packet_recv_any(cl, buf, sender_addr, id) ==
    LET msg == deserialize(buf)
    IN  IF msg.type # "Error"
        THEN Append(cl, [addr |-> sender_addr, pk |-> msg.pk, id |-> id])
        ELSE cl

\* on_packet_recv on clients = cl: the value of clients afterwards
on_packet_recv(cl, buf, sender_addr, id) ==
    LET msg == deserialize(buf)
    IN  IF msg.type = "Request"
        THEN Append(cl, [addr |-> sender_addr, pk |-> msg.pk, id |-> id])
        ELSE cl

\* on_packet_recv, the other arm: the buffer warn! writes for the datagram, whole
warned(buf) == IF deserialize(buf).type = "Request" THEN <<>> ELSE <<buf>>

\* the records on_packet_recv writes for the datagrams received, in order
RECURSIVE warnings_of(_)
warnings_of(drained) ==
    IF drained = <<>> THEN <<>>
    ELSE warned(Head(drained).bytes) \o warnings_of(Tail(drained))

\* a drain pass that receives one datagram and returns
poll_requests_one(cl, queue, drained, fuel, err) ==
    IF err # "none" /\ fuel = 0
    THEN [clients |-> cl, listener |-> queue, drained |-> drained, err |-> err]
    ELSE IF queue = <<>>
    THEN [clients |-> cl, listener |-> queue, drained |-> drained, err |-> "none"]
    ELSE LET d == Head(queue)
         IN  [clients |-> on_packet_recv(cl, d.bytes, d.from, d.id), listener |-> Tail(queue),
              drained |-> Append(drained, d), err |-> "none"]

\* poll_requests on clients = cl and receive queue = queue.  The socket
\* returns err after fuel successful receives (err = "none": it never fails
\* and is NotReady once the queue is empty).
RECURSIVE poll_requests(_, _, _, _, _)
poll_requests(cl, queue, drained, fuel, err) ==
    IF err # "none" /\ fuel = 0
    THEN [clients |-> cl, listener |-> queue, drained |-> drained, err |-> err]
    ELSE IF queue = <<>>
    THEN [clients |-> cl, listener |-> queue, drained |-> drained, err |-> "none"]
    ELSE LET d == Head(queue)
         IN  poll_requests(on_packet_recv(cl, d.bytes, d.from, d.id), Tail(queue),
                           Append(drained, d), IF fuel > 0 THEN fuel - 1 ELSE 0, err)

\* taking the oldest entry instead of the newest
clients_pop_front(cl) == [entry |-> Head(cl), rest |-> Tail(cl)]

\* self.clients.pop(): the entry taken and what stays
clients_pop(cl) == [entry |-> Last(cl), rest |-> Front(cl)]

\* putting the entry back twice
push_back_twice(rest, entry) == Append(Append(rest, entry), entry)

\* putting the entry back at the other end
push_back_front(rest, entry) == <<entry>> \o rest

\* self.clients.push((addr, their_pk)) after a would-block
push_back(rest, entry) == Append(rest, entry)

\* a sealing failure handled like a would-block: push back, break
no_response_retry(rest, entry) == [clients |-> Append(rest, entry), continue |-> FALSE]

\* make_response is None: the entry is gone and the loop continues
no_response(rest, entry) == [clients |-> rest, continue |-> TRUE]

\* poll_send_responses on clients = cl.  The socket accepts fuel datagrams,
\* then returns last (would-block or an error).
RECURSIVE poll_send_responses(_, _, _, _, _)
poll_send_responses(cl, out, dropped, fuel, last) ==
    IF cl = <<>>
    THEN [clients |-> cl, out |-> out, dropped |-> dropped, blocked |-> FALSE,
          err |-> "none"]
    ELSE LET p == clients_pop(cl)
             resp == make_response(p.entry.pk)
         IN  IF ~resp.ok
             THEN LET n == no_response(p.rest, p.entry)
                  IN  IF n.continue
                      THEN poll_send_responses(n.clients, out,
                                               dropped \cup {p.entry.id}, fuel, last)
                      ELSE [clients |-> n.clients, out |-> out, dropped |-> dropped,
                            blocked |-> FALSE, err |-> "none"]
             ELSE IF fuel > 0
             THEN poll_send_responses(
                      p.rest,
                      Append(out, [to |-> p.entry.addr, bytes |-> resp.buf,
                                   id |-> p.entry.id]),
                      dropped, fuel - 1, last)
             ELSE IF last = "NotReady"
             THEN [clients |-> push_back(p.rest, p.entry), out |-> out,
                   dropped |-> dropped, blocked |-> TRUE, err |-> "none"]
             ELSE [clients |-> p.rest, out |-> out, dropped |-> dropped,
                   blocked |-> FALSE, err |-> last]

\* completing once nothing is pending
poll_return_ready_when_empty(cl) == IF cl = <<>> THEN "Ready" ELSE "NotReady"

\* what Future::poll returns when neither ? returned early
poll_return(cl) == "NotReady"

\* a receive error that is swallowed: the poll goes on to flush
poll_outcome_recv_error_ignored(rfuel, rerr, sfuel, last) ==
    LET r == poll_requests(clients, listener, <<>>, rfuel, rerr)
        f == poll_send_responses(r.clients, <<>>, {}, sfuel, last)
    IN  [clients |-> f.clients, listener |-> r.listener, drained |-> r.drained,
         flush0 |-> r.clients, out |-> f.out, dropped |-> f.dropped,
         blocked |-> f.blocked,
         io |-> IF r.err # "none" THEN r.err ELSE f.err,
         io_at |-> IF r.err # "none" THEN "recv"
                   ELSE IF f.err # "none" THEN "send" ELSE "none",
         ret |-> IF f.err # "none" THEN f.err ELSE poll_return(f.clients)]

\* Future::poll: poll_requests()?; poll_send_responses()?; Ok(NotReady)
poll_outcome(rfuel, rerr, sfuel, last) ==
    LET flush(r) ==
            LET done(f) ==
                    [clients |-> f.clients, listener |-> r.listener,
                     drained |-> r.drained, flush0 |-> r.clients, out |-> f.out,
                     dropped |-> f.dropped, blocked |-> f.blocked, io |-> f.err,
                     io_at |-> IF f.err # "none" THEN "send" ELSE "none",
                     ret |-> IF f.err # "none" THEN f.err ELSE poll_return(f.clients)]
            IN  done(poll_send_responses(r.clients, <<>>, {}, sfuel, last))
        requests(r) ==
            IF r.err # "none"
            THEN [clients |-> r.clients, listener |-> r.listener, drained |-> r.drained,
                  flush0 |-> r.clients, out |-> <<>>, dropped |-> {}, blocked |-> FALSE,
                  io |-> r.err, io_at |-> "recv", ret |-> r.err]
            ELSE flush(r)
    IN  requests(poll_requests(clients, listener, <<>>, rfuel, rerr))

\* (sender, key, id) of the well-formed Requests among the datagrams
RECURSIVE requests_of(_)
requests_of(drained) ==
    IF drained = <<>> THEN <<>>
    ELSE LET d == Head(drained)
         IN  (IF IsRequest(d.bytes)
              THEN <<[addr |-> d.from, pk |-> d.bytes[2], id |-> d.id]>>
              ELSE <<>>) \o requests_of(Tail(drained))

\* the datagrams of out addressed to the socket of the branch in flight join
\* its receive queue
RECURSIVE deliver(_, _)
deliver(queue, out) ==
    IF out = <<>> THEN queue
    ELSE deliver(IF sock # 0 /\ Head(out).to = sock
                 THEN Append(queue, Head(out).bytes) ELSE queue,
                 Tail(out))

\* what the socket may do to the receives of one poll: never fail, or return
\* an error after some of the waiting datagrams
RecvFates ==
    {[err |-> "none", fuel |-> 0]}
        \cup {[err |-> e, fuel |-> k] : e \in IoErrors, k \in 0..Len(listener)}

\* what the socket may do to the sends of one poll: accept them all, or
\* return would-block or an error after some of them
SendFates ==
    {[last |-> "NotReady", fuel |-> Len(clients) + Len(listener)]}
        \cup {[last |-> l, fuel |-> k] :
                l \in {"NotReady"} \cup IoErrors,
                k \in 0..(Len(clients) + Len(listener) - 1)}

\* what a poll with outcome o leaves in the server
poll_state(o) ==
    /\ clients' = o.clients
    /\ listener' = o.listener
    /\ ret' = o.ret

\* what a poll with outcome o adds to the records of the run
poll_record(o) ==
    /\ sent' = sent \o o.out
    /\ log' = log \o warnings_of(o.drained)
    /\ sock_queue' = deliver(sock_queue, o.out)
    /\ h_arrivals' = deliver(h_arrivals, o.out)
    /\ h_drained' = o.drained
    /\ h_accepted' = h_accepted \o requests_of(o.drained)
    /\ h_flush0' = o.flush0
    /\ h_dropped' = h_dropped \cup o.dropped
    /\ h_blocked' = o.blocked
    /\ h_io' = o.io
    /\ h_io_at' = o.io_at
    /\ h_clients0' = clients
    /\ h_listener0' = listener
    /\ h_mark' = Len(sent)

\* the executor polls the server future, which has not failed before
poll ==
    /\ bound
    /\ ret \notin IoErrors
    /\ \E rf \in RecvFates, sf \in SendFates :
        \E o \in {poll_outcome(rf.fuel, rf.err, sf.fuel, sf.last)} :
            poll_state(o) /\ poll_record(o)
    /\ UNCHANGED <<bound, cfg_addrs, our_addrs, nid, env_vars, dp_vars>>

(* ------------------------------ the LAN ------------------------------- *)
\* what the other peers may send to the server: Requests with their keys, a
\* Request with a key that cannot be sealed against, a Response, a truncated
\* Request
PeerDatagrams ==
    {[from |-> 21, bytes |-> serialized_request(1)],
     [from |-> 22, bytes |-> serialized_request(2)],
     [from |-> 22, bytes |-> serialized_request(9)],
     [from |-> 21, bytes |-> serialize(Response(<<>>))],
     [from |-> 21, bytes |-> <<REQUEST_TAG>>]}

\* a datagram of another peer reaches the server socket
peer_sends ==
    /\ noise > 0
    /\ \E d \in PeerDatagrams :
        listener' = Append(listener, [from |-> d.from, bytes |-> d.bytes, id |-> nid + 1])
    /\ nid' = nid + 1
    /\ noise' = noise - 1
    /\ UNCHANGED <<ifaces, bound, cfg_addrs, our_addrs, clients, ret, sent, log, hist_vars,
                   cli_vars>>

(* --------------------------- discover_peers --------------------------- *)
Ok(addrs) == [ok |-> TRUE, addrs |-> addrs, err |-> "none"]
Err(kind) == [ok |-> FALSE, addrs |-> <<>>, err |-> kind]
Io(e) == "Io"

Range(s) == {s[i] : i \in 1..Len(s)}

\* the address of the n-th socket bound to 0.0.0.0:0
EphemeralAddr(n) == 40 + n

\* the same key pair in every call
gen_encrypt_keypair_reused == [pk |-> GenKey(1), sk |-> SecretOf(GenKey(1))]

\* gen_encrypt_keypair() in the next call of discover_peers
gen_encrypt_keypair == [pk |-> GenKey(calls + 1), sk |-> SecretOf(GenKey(calls + 1))]

\* broadcast_addrs(port) when get_if_addrs succeeds: one target per interface
broadcast_addrs == ifaces

\* deserializing the datagram without opening the box
decrypt_response_unsealed(buf) ==
    LET msg == deserialize(buf)
    IN  IF msg.type = "Response" THEN Ok(msg.addrs) ELSE Err("InvalidResponse")

\* the last closure of the stream: unseal with our_sk, expect a Response
decrypt_response(buf) ==
    LET msg == anonymously_decrypt(our_sk, buf, our_pk)
    IN  IF msg.type = "Response" THEN Ok(msg.addrs) ELSE Err("InvalidResponse")

\* the branch in flight ends: its socket is dropped
branch_done(item) ==
    /\ items' = Append(items, item)
    /\ stage' = "next"
    /\ sock' = 0
    /\ target' = 0
    /\ sock_queue' = <<>>
    /\ UNCHANGED h_arrivals

\* a failed broadcast_addrs(port) answered with an empty stream
discover_peers_no_addrs_empty ==
    /\ dp \in {"none", "ended"}
    /\ calls_left > 0
    /\ calls_left' = calls_left - 1
    /\ err_items' = <<>>
    /\ dp' = "error"
    /\ h_no_addrs' = TRUE
    /\ h_opened' = 0
    /\ calls' = calls + 1
    /\ items' = <<>>
    /\ our_pk' = 0 /\ our_sk' = 0 /\ request' = <<>>
    /\ broadcast_to' = <<>>
    /\ h_targets' = <<>>
    /\ h_strays' = 0
    /\ h_requests' = <<>>
    /\ h_reads' = <<>>
    /\ UNCHANGED <<stage, sock, target, sock_queue, h_arrivals, nsock, h_keys,
                   srv_vars, env_vars, hist_vars>>

\* discover_peers, broadcast_addrs(port) is Err: try_bstream! returns
\* stream::iter_result(vec![Err(e)])
discover_peers_no_addrs ==
    /\ dp \in {"none", "ended"}
    /\ calls_left > 0
    /\ calls_left' = calls_left - 1
    /\ \E e \in IoErrors : err_items' = <<Err(Io(e))>>
    /\ dp' = "error"
    /\ h_no_addrs' = TRUE
    /\ h_opened' = 0
    /\ calls' = calls + 1
    /\ items' = <<>>
    /\ our_pk' = 0 /\ our_sk' = 0 /\ request' = <<>>
    /\ broadcast_to' = <<>>
    /\ h_targets' = <<>>
    /\ h_strays' = 0
    /\ h_requests' = <<>>
    /\ h_reads' = <<>>
    /\ UNCHANGED <<stage, sock, target, sock_queue, h_arrivals, nsock, h_keys,
                   srv_vars, env_vars, hist_vars>>

\* discover_peers, broadcast_addrs(port) is Ok: one key pair, the serialized
\* request, and the and_then chain over stream::iter_ok(broadcast_to).
\* serialized_request writes a variant index and a fixed-size key into a Vec
\* with bincode's default (unlimited) size: it returns Ok, the second
\* try_bstream! never returns early.
discover_peers ==
    /\ dp \in {"none", "ended"}
    /\ calls_left > 0
    /\ calls_left' = calls_left - 1
    /\ broadcast_to' = broadcast_addrs
    /\ h_targets' = broadcast_addrs
    /\ LET pair == gen_encrypt_keypair
       IN  /\ our_pk' = pair.pk
           /\ our_sk' = pair.sk
           /\ request' = serialized_request(pair.pk)
           /\ h_keys' = Append(h_keys, pair.pk)
    /\ dp' = "stream"
    /\ h_no_addrs' = FALSE
    /\ h_opened' = 0
    /\ calls' = calls + 1
    /\ items' = <<>>
    /\ err_items' = <<>>
    /\ h_strays' = 0
    /\ h_requests' = <<>>
    /\ h_reads' = <<>>
    /\ UNCHANGED <<stage, sock, target, sock_queue, h_arrivals, nsock,
                   srv_vars, env_vars, hist_vars>>

\* polling iter_result: the next element of the vec
iter_result_next ==
    /\ dp = "error"
    /\ err_items # <<>>
    /\ items' = Append(items, Head(err_items))
    /\ err_items' = Tail(err_items)
    /\ UNCHANGED <<dp, our_pk, our_sk, request, broadcast_to, stage, sock, target,
                   sock_queue, h_arrivals, calls, calls_left, nsock, h_keys, h_targets, h_requests, h_reads,
                   h_no_addrs, h_opened, h_strays, srv_vars, env_vars, hist_vars>>

\* polling iter_result: the vec is empty, the stream ends
iter_result_end ==
    /\ dp = "error"
    /\ err_items = <<>>
    /\ dp' = "ended"
    /\ UNCHANGED <<our_pk, our_sk, request, broadcast_to, stage, sock, target, items,
                   sock_queue, h_arrivals, calls, calls_left, nsock, err_items, h_keys, h_targets, h_requests,
                   h_reads, h_no_addrs, h_opened, h_strays, srv_vars, env_vars, hist_vars>>

\* a branch that generates a key pair of its own together with its socket
branch_sock_rekey ==
    /\ dp = "stream" /\ stage = "next"
    /\ broadcast_to # <<>>
    /\ target' = Head(broadcast_to)
    /\ broadcast_to' = Tail(broadcast_to)
    /\ nsock' = nsock + 1
    /\ sock' = EphemeralAddr(nsock + 1)
    /\ sock_queue' = <<>>
    /\ h_arrivals' = <<>>
    /\ stage' = "send"
    /\ h_opened' = h_opened + 1
    /\ our_pk' = gen_encrypt_keypair.pk
    /\ our_sk' = gen_encrypt_keypair.sk
    /\ request' = serialized_request(gen_encrypt_keypair.pk)
    /\ UNCHANGED <<dp, items, calls, calls_left, err_items, h_keys,
                   h_targets, h_requests, h_reads, h_no_addrs, h_strays, srv_vars, env_vars, hist_vars>>

\* first and_then: broadcast_sock() is Ok for the next target
branch_sock ==
    /\ dp = "stream" /\ stage = "next"
    /\ broadcast_to # <<>>
    /\ target' = Head(broadcast_to)
    /\ broadcast_to' = Tail(broadcast_to)
    /\ nsock' = nsock + 1
    /\ sock' = EphemeralAddr(nsock + 1)
    /\ sock_queue' = <<>>
    /\ h_arrivals' = <<>>
    /\ stage' = "send"
    /\ h_opened' = h_opened + 1
    /\ UNCHANGED <<dp, our_pk, our_sk, request, items, calls, calls_left, err_items, h_keys,
                   h_targets, h_requests, h_reads, h_no_addrs, h_strays, srv_vars, env_vars, hist_vars>>

\* a target whose socket cannot be opened is passed over without an item
branch_sock_err_skip ==
    /\ dp = "stream" /\ stage = "next"
    /\ broadcast_to # <<>>
    /\ broadcast_to' = Tail(broadcast_to)
    /\ UNCHANGED <<dp, our_pk, our_sk, request, stage, sock, target, sock_queue, h_arrivals,
                   items, calls, calls_left, nsock, err_items, h_keys, h_targets, h_requests,
                   h_reads, h_no_addrs, h_opened, h_strays, srv_vars, env_vars, hist_vars>>

\* first and_then: broadcast_sock() is Err, the stream yields Err(Io)
branch_sock_err ==
    /\ dp = "stream" /\ stage = "next"
    /\ broadcast_to # <<>>
    /\ broadcast_to' = Tail(broadcast_to)
    /\ \E e \in IoErrors : items' = Append(items, Err(Io(e)))
    /\ UNCHANGED <<dp, our_pk, our_sk, request, stage, sock, target, sock_queue, h_arrivals, calls, calls_left,
                   nsock, err_items, h_keys, h_targets, h_requests, h_reads, h_no_addrs, h_opened, h_strays,
                   srv_vars, env_vars, hist_vars>>

\* second and_then: send_dgram(request.clone(), &addr) completes; the server
\* socket receives what is sent to its broadcast address
branch_send ==
    /\ dp = "stream" /\ stage = "send"
    /\ h_requests' = Append(h_requests,
                            [to |-> target, bytes |-> request, from |-> sock, call |-> calls])
    /\ IF bound /\ target \in ServerSubnet
       THEN /\ listener' = Append(listener,
                                  [from |-> sock, bytes |-> request, id |-> nid + 1])
            /\ nid' = nid + 1
       ELSE UNCHANGED <<listener, nid>>
    /\ stage' = "recv"
    /\ UNCHANGED <<dp, our_pk, our_sk, request, broadcast_to, sock, target, items,
                   sock_queue, calls, calls_left, nsock, err_items, h_keys, h_targets, h_reads,
                   h_no_addrs, h_opened, h_strays, h_arrivals, bound, cfg_addrs, our_addrs, clients, ret, sent,
                   log, env_vars,
                   hist_vars>>

\* second and_then: send_dgram fails, the stream yields Err(Io)
branch_send_err ==
    /\ dp = "stream" /\ stage = "send"
    /\ \E e \in IoErrors : branch_done(Err(Io(e)))
    /\ UNCHANGED <<dp, our_pk, our_sk, request, broadcast_to, calls, calls_left, nsock, err_items,
                   h_keys, h_targets, h_requests, h_reads, h_no_addrs, h_opened, h_strays, srv_vars, env_vars,
                   hist_vars>>

\* a branch that reads the datagram that arrived last
branch_recv_latest ==
    /\ dp = "stream" /\ stage = "recv"
    /\ sock_queue # <<>>
    /\ branch_done(decrypt_response(Last(sock_queue)))
    /\ h_reads' = Append(h_reads, [sock |-> sock, bytes |-> Last(sock_queue), call |-> calls,
                                   sk |-> our_sk, pk |-> our_pk,
                                   item |-> decrypt_response(Last(sock_queue))])
    /\ UNCHANGED <<dp, our_pk, our_sk, request, broadcast_to, calls, calls_left, nsock, err_items,
                   h_keys, h_targets, h_requests, h_no_addrs, h_opened, h_strays, srv_vars, env_vars, hist_vars>>

\* a branch that drops a datagram it cannot use and reads the next one
branch_recv_retry ==
    /\ dp = "stream" /\ stage = "recv"
    /\ sock_queue # <<>>
    /\ IF decrypt_response(Head(sock_queue)).ok
       THEN branch_done(decrypt_response(Head(sock_queue)))
       ELSE /\ sock_queue' = Tail(sock_queue)
            /\ UNCHANGED <<items, stage, sock, target, h_arrivals>>
    /\ h_reads' = Append(h_reads, [sock |-> sock, bytes |-> Head(sock_queue), call |-> calls,
                                   sk |-> our_sk, pk |-> our_pk,
                                   item |-> decrypt_response(Head(sock_queue))])
    /\ UNCHANGED <<dp, our_pk, our_sk, request, broadcast_to, calls, calls_left, nsock, err_items,
                   h_keys, h_targets, h_requests, h_no_addrs, h_opened, h_strays, srv_vars, env_vars, hist_vars>>

\* third and fourth and_then: recv_dgram completes with the first datagram of
\* the socket, which is unsealed and yielded
branch_recv ==
    /\ dp = "stream" /\ stage = "recv"
    /\ sock_queue # <<>>
    /\ branch_done(decrypt_response(Head(sock_queue)))
    /\ h_reads' = Append(h_reads, [sock |-> sock, bytes |-> Head(sock_queue), call |-> calls,
                                   sk |-> our_sk, pk |-> our_pk,
                                   item |-> decrypt_response(Head(sock_queue))])
    /\ UNCHANGED <<dp, our_pk, our_sk, request, broadcast_to, calls, calls_left, nsock, err_items,
                   h_keys, h_targets, h_requests, h_no_addrs, h_opened, h_strays, srv_vars, env_vars, hist_vars>>

\* third and_then: recv_dgram fails, the stream yields Err(Io)
branch_recv_err ==
    /\ dp = "stream" /\ stage = "recv"
    /\ \E e \in IoErrors : branch_done(Err(Io(e)))
    /\ UNCHANGED <<dp, our_pk, our_sk, request, broadcast_to, calls, calls_left, nsock, err_items,
                   h_keys, h_targets, h_requests, h_reads, h_no_addrs, h_opened, h_strays, srv_vars, env_vars,
                   hist_vars>>

\* iter_ok has no target left and no branch is in flight: the stream ends
stream_end ==
    /\ dp = "stream" /\ stage = "next"
    /\ broadcast_to = <<>>
    /\ dp' = "ended"
    /\ UNCHANGED <<our_pk, our_sk, request, broadcast_to, stage, sock, target, items,
                   sock_queue, h_arrivals, calls, calls_left, nsock, err_items, h_keys, h_targets, h_requests,
                   h_reads, h_no_addrs, h_opened, h_strays, srv_vars, env_vars, hist_vars>>

\* what another peer may send to a branch socket: bytes that are no sealed
\* box, a Request sealed for the call's key, a Response sealed for the call's
\* key, a Response sealed for the key of an earlier call
StrayPayloads ==
    {<<REQUEST_TAG>>,
     anonymously_encrypt(our_pk, Request(our_pk)).buf,
     anonymously_encrypt(our_pk, Response(<<12>>)).buf}
        \cup {anonymously_encrypt(k, Response(<<11>>)).buf : k \in Range(h_keys) \ {our_pk}}

\* a datagram of another peer reaches the socket of the branch in flight
stray_datagram ==
    /\ sock # 0
    /\ noise > 0
    /\ \E bytes \in StrayPayloads :
        /\ sock_queue' = Append(sock_queue, bytes)
        /\ h_arrivals' = Append(h_arrivals, bytes)
    /\ noise' = noise - 1
    /\ h_strays' = h_strays + 1
    /\ UNCHANGED <<h_no_addrs, h_opened, ifaces, dp, our_pk, our_sk, request, broadcast_to, stage, sock, target, items,
                   calls, calls_left, nsock, err_items, h_keys, h_targets, h_requests, h_reads,
                   srv_vars, hist_vars>>

(* --------------------------- specification ---------------------------- *)
InitHistory ==
    /\ sent = <<>>
    /\ nid = 0
    /\ log = <<>>
    /\ h_accepted = <<>>
    /\ h_dropped = {}
    /\ h_clients0 = <<>>
    /\ h_listener0 = <<>>
    /\ h_drained = <<>>
    /\ h_flush0 = <<>>
    /\ h_mark = 0
    /\ h_blocked = FALSE
    /\ h_io = "none"
    /\ h_io_at = "none"

\* a server constructed with any list of addresses
InitServer == (\E addrs \in SeqsUpTo(AdvAddrs, MaxAddrs) : new(addrs)) /\ InitHistory

\* discover_peers has not been called
InitDiscover ==
    /\ dp = "none"
    /\ our_pk = 0
    /\ our_sk = 0
    /\ request = <<>>
    /\ broadcast_to = <<>>
    /\ stage = "next"
    /\ sock = 0
    /\ target = 0
    /\ sock_queue = <<>>
    /\ h_arrivals = <<>>
    /\ items = <<>>
    /\ calls = 0
    /\ nsock = 0
    /\ err_items = <<>>
    /\ h_keys = <<>>
    /\ h_targets = <<>>
    /\ h_requests = <<>>
    /\ h_reads = <<>>
    /\ h_no_addrs = FALSE
    /\ h_opened = 0
    /\ h_strays = 0

Init ==
    /\ InitServer /\ InitDiscover
    /\ noise = MaxDatagrams /\ ifaces = <<>> /\ calls_left = 0

Next == poll \/ peer_sends

\* a DiscoveryServer and the other peers of its LAN
Spec == Init /\ [][Next]_vars

\* the stream of discover_peers, polled by its executor
StreamNext ==
    \/ iter_result_next
    \/ iter_result_end
    \/ branch_sock
    \/ branch_sock_err
    \/ branch_send
    \/ branch_send_err
    \/ branch_recv
    \/ branch_recv_err
    \/ stream_end

\* the application calls discover_peers and polls the stream; other peers
\* send to the branch sockets
DiscoverNext ==
    \/ discover_peers_no_addrs
    \/ discover_peers
    \/ StreamNext
    \/ stray_datagram

NextLan == DiscoverNext \/ poll

\* one call of discover_peers, on a host with at most one interface, on the
\* LAN of a DiscoveryServer
InitLan ==
    /\ InitServer /\ InitDiscover
    /\ noise = MaxStrays
    /\ ifaces \in SeqsUpTo(BroadcastAddrs, 1)
    /\ calls_left = 1

SpecDiscover == InitLan /\ [][NextLan]_vars

\* no DiscoveryServer on this LAN
InitNoServer ==
    /\ bound = FALSE
    /\ cfg_addrs = <<>>
    /\ our_addrs = <<>>
    /\ clients = <<>>
    /\ listener = <<>>
    /\ ret = "none"
    /\ InitHistory

\* successive calls of discover_peers on a LAN without a server
InitRounds ==
    /\ InitNoServer /\ InitDiscover
    /\ noise = MaxStrays
    /\ ifaces \in SeqsUpTo(BroadcastAddrs, MaxTargets)
    /\ calls_left = MaxCalls

SpecRounds == InitRounds /\ [][DiscoverNext]_vars

(* -------------------- a server that runs for ever --------------------- *)
\* the socket never returns an error: a receive is a datagram or NotReady, a
\* send is accepted or would block
HealthyRecv == {f \in RecvFates : f.err = "none"}
HealthySend == {f \in SendFates : f.last = "NotReady"}

\* the executor polls the server future and no socket call fails.  The
\* records of the run (sent, log, the history of the poll) are not kept, so
\* that an endless run has finitely many states.
poll_healthy ==
    /\ bound
    /\ ret \notin IoErrors
    /\ \E rf \in HealthyRecv, sf \in HealthySend :
        \E o \in {poll_outcome(rf.fuel, rf.err, sf.fuel, sf.last)} : poll_state(o)
    /\ UNCHANGED <<bound, cfg_addrs, our_addrs, sent, nid, log, env_vars, hist_vars, cli_vars>>

\* a poll during which the socket is writable: it accepts at least one
\* datagram before it would block
poll_writable ==
    /\ bound
    /\ ret \notin IoErrors
    /\ \E rf \in HealthyRecv, sf \in {f \in HealthySend : f.fuel >= 1} :
        \E o \in {poll_outcome(rf.fuel, rf.err, sf.fuel, sf.last)} : poll_state(o)
    /\ UNCHANGED <<bound, cfg_addrs, our_addrs, sent, nid, log, env_vars, hist_vars, cli_vars>>

\* the ids no datagram or entry in the server carries
FreeIds ==
    (1..MaxPending) \ ({listener[i].id : i \in 1..Len(listener)}
                          \cup {clients[i].id : i \in 1..Len(clients)})

\* a datagram of another peer reaches the server socket, now and again for
\* ever; it is given the least id not in use
peer_sends_again ==
    /\ FreeIds # {}
    /\ \E d \in PeerDatagrams :
        listener' = Append(listener,
                           [from |-> d.from, bytes |-> d.bytes,
                            id |-> CHOOSE n \in FreeIds : \A m \in FreeIds : n <= m])
    /\ UNCHANGED <<bound, cfg_addrs, our_addrs, clients, ret, sent, nid, log, env_vars,
                   hist_vars, cli_vars>>

\* a server constructed with no address or one (the list plays no part in
\* the order of the queue)
InitStarve ==
    /\ (\E addrs \in SeqsUpTo(AdvAddrs, 1) : new(addrs)) /\ InitHistory
    /\ InitDiscover
    /\ noise = 0 /\ ifaces = <<>> /\ calls_left = 0

NextStarve == poll_healthy \/ peer_sends_again

\* a server that keeps being polled, on a socket that never fails and is
\* writable again and again, while peers keep sending
SpecStarve ==
    /\ InitStarve /\ [][NextStarve]_vars
    /\ WF_vars(poll_healthy)
    /\ SF_vars(poll_writable)

(* ------------------------- claims: the server ------------------------- *)
\* the last poll returned Ok(NotReady) and none of its sends would block
UninterruptedPoll == ret = "NotReady" /\ ~h_blocked

\* the datagrams sent by the last poll
SentThisPoll == SubSeq(sent, h_mark + 1, Len(sent))

\* the entries of the queue have different ids
DistinctIds(cl) == \A i, j \in 1..Len(cl) : cl[i].id = cl[j].id => i = j

\* no entry of cl has this id
NotIn(id, cl) == \A i \in 1..Len(cl) : cl[i].id # id

\* C1: every datagram the server has sent answers a well-formed Request
\* (sender A, key K): it is addressed to A, opens with the secret key of K to
\* Response(L) for the list L given to new, and opens with no other key pair.
C1_SealedResponse ==
    \A i \in 1..Len(sent) :
        \E j \in 1..Len(h_accepted) :
            LET d == sent[i]
                r == h_accepted[j]
            IN  /\ r.id = d.id
                /\ d.to = r.addr
                /\ anonymously_decrypt(SecretOf(r.pk), d.bytes, r.pk) = Response(cfg_addrs)
                /\ \A pk \in Keys, sk \in SecretKeys :
                     <<sk, pk>> # <<SecretOf(r.pk), r.pk>>
                        => anonymously_decrypt(sk, d.bytes, pk).type = "Error"

\* a list with a duplicate is sealed by a poll that follows earlier responses
C1_Witness ==
    /\ Len(cfg_addrs) = 2 /\ cfg_addrs[1] = cfg_addrs[2]
    /\ h_mark >= 1 /\ Len(sent) > h_mark

\* C3: the receives of a poll push one (sender, key) entry for each
\* well-formed Request, in order, also when an equal entry is queued; and a
\* poll that returns Ok without a would-block leaves the queue empty.
C3_EnqueueOnceAndDrain ==
    /\ h_flush0 = h_clients0 \o requests_of(h_drained)
    /\ UninterruptedPoll => clients = <<>>

\* two identical requests were received by one poll and both were dequeued
C3_Witness ==
    /\ UninterruptedPoll
    /\ clients = <<>>
    /\ Len(h_drained) = 2
    /\ IsRequest(h_drained[1].bytes)
    /\ h_drained[1].from = h_drained[2].from
    /\ h_drained[1].bytes = h_drained[2].bytes
    /\ Len(SentThisPoll) = 2

\* C4: a flush without would-block sends its responses in the reverse of the
\* order in which the entries were queued (entries whose key cannot be sealed
\* against are skipped).
C4_MostRecentFirst ==
    UninterruptedPoll =>
        LET sealable == SelectSeq(h_flush0, LAMBDA c : c.pk \notin UnsealableKeys)
        IN  [i \in 1..Len(SentThisPoll) |-> <<SentThisPoll[i].to, SentThisPoll[i].id>>]
            = Reverse([i \in 1..Len(sealable) |-> <<sealable[i].addr, sealable[i].id>>])

\* A (21) was queued before B (22) and B was answered first
C4_Witness ==
    /\ UninterruptedPoll
    /\ Len(h_flush0) = 2 /\ h_flush0[1].addr = 21 /\ h_flush0[2].addr = 22
    /\ Len(SentThisPoll) = 2 /\ SentThisPoll[1].to = 22 /\ SentThisPoll[2].to = 21

\* C5: after a would-block the poll has returned NotReady, the queue is the
\* bottom part of what it was when the flush began (the entry that blocked
\* on top, once, the others beneath in their order), nothing was sent for
\* these entries and none of them was dropped: the flush touched only the
\* entries above.
C5_WouldBlockFrame ==
    h_blocked =>
        LET k == Len(clients)
        IN  /\ ret = "NotReady"
            /\ k >= 1
            /\ clients = SubSeq(h_flush0, 1, k)
            /\ DistinctIds(clients)
            /\ \A i \in 1..k :
                /\ clients[i].id \notin h_dropped
                /\ NotIn(clients[i].id, sent)
            /\ \A i \in 1..Len(SentThisPoll) :
                \E j \in (k + 1)..Len(h_flush0) : h_flush0[j].id = SentThisPoll[i].id

\* a would-block with another entry beneath the one that was popped
C5_Witness == h_blocked /\ Len(clients) = 2

\* C6: a received datagram that is no well-formed Request queues no entry and
\* is never answered; the poll returns an error only if a socket call
\* returned it; the Requests received after it are queued, and unless the
\* socket fails the poll receives every datagram that was waiting.
C6_InvalidDatagramIgnored ==
    /\ \A i \in 1..Len(h_drained) :
        IF IsRequest(h_drained[i].bytes)
        THEN ~NotIn(h_drained[i].id, h_flush0)
        ELSE /\ NotIn(h_drained[i].id, h_flush0)
             /\ NotIn(h_drained[i].id, clients)
             /\ NotIn(h_drained[i].id, sent)
    /\ Len(h_flush0) = Len(h_clients0) + Len(requests_of(h_drained))
    /\ ret \in IoErrors => h_io = ret
    /\ (ret # "none" /\ h_io_at # "recv") => h_drained = h_listener0

\* one poll received a Response variant and then queued a Request
C6_Witness ==
    \E i, j \in 1..Len(h_drained) :
        /\ i < j
        /\ deserialize(h_drained[i].bytes).type = "Response"
        /\ IsRequest(h_drained[j].bytes)
        /\ ~NotIn(h_drained[j].id, h_flush0)

\* C7: an entry whose key cannot be sealed against leaves the queue when it is
\* popped and is never queued again nor answered; the poll returns no error
\* for it and goes on with the entries beneath it.
C7_SealFailureDrops ==
    LET k == Len(clients)
    IN  /\ \A id \in h_dropped : NotIn(id, clients) /\ NotIn(id, sent)
        /\ \A i \in (k + 1)..Len(h_flush0) :
            h_flush0[i].pk \in UnsealableKeys => h_flush0[i].id \in h_dropped
        /\ ret = "NotReady" =>
            \/ clients = <<>>
            \/ h_blocked /\ Last(clients).pk \notin UnsealableKeys
        /\ (k < Len(h_flush0) /\ h_flush0[k + 1].pk \in UnsealableKeys)
            => ret = "NotReady"

\* the entry on top was dropped and the one beneath it was answered
C7_Witness ==
    /\ UninterruptedPoll
    /\ Len(h_flush0) = 2
    /\ h_flush0[2].id \in h_dropped
    /\ Len(SentThisPoll) = 1 /\ SentThisPoll[1].id = h_flush0[1].id

\* C8: an error of a socket call is what the poll returns, and the poll does
\* nothing after it: after a failed receive nothing more is received, popped
\* or sent; after a failed send the entries beneath stay queued, unanswered.
C8_IoErrorFatal ==
    /\ h_io # "none" <=> ret \in IoErrors
    /\ h_io # "none" => ret = h_io
    /\ h_io_at = "recv" =>
        /\ SentThisPoll = <<>>
        /\ clients = h_flush0
        /\ Len(h_drained) <= Len(h_listener0)
        /\ h_listener0 =
             h_drained \o SubSeq(listener, 1, Len(h_listener0) - Len(h_drained))
    /\ h_io_at = "send" =>
        /\ Len(clients) < Len(h_flush0)
        /\ clients = SubSeq(h_flush0, 1, Len(clients))
        /\ \A i \in 1..Len(clients) :
            NotIn(clients[i].id, sent) /\ clients[i].id \notin h_dropped

\* a receive failed with a datagram still unread and an entry still queued
C8_Witness ==
    /\ h_io_at = "recv"
    /\ Len(h_drained) = 1
    /\ listener # <<>>
    /\ clients # <<>>

\* C9: a poll of the server returns NotReady or an I/O error, never a value.
C9_NeverCompletes ==
    /\ ret \in {"none", "NotReady"} \cup IoErrors
    /\ ret # "Ready"

\* a poll returned NotReady with the queue empty after two responses were sent
C9_Witness == ret = "NotReady" /\ clients = <<>> /\ Len(sent) >= 2

(* ---------------------- claims: discover_peers ------------------------ *)
\* C2: with one broadcast target, on the server's subnet, and no datagram of
\* another peer, the stream yields at most one item and exactly one by the
\* time it ends; once the branch has read a datagram the item is Ok(L), L
\* being the list given to the server, in its order.
C2_SingleTargetRoundTrip ==
    (Len(h_targets) = 1 /\ h_targets[1] \in ServerSubnet /\ h_strays = 0) =>
        /\ Len(items) <= 1
        /\ dp = "ended" => Len(items) = 1
        /\ \A i \in 1..Len(items) : items[i].err # "InvalidResponse"
        /\ Len(h_reads) = 1 => items = <<Ok(cfg_addrs)>>

\* the stream ended after yielding the server's two different addresses
C2_Witness ==
    /\ dp = "ended"
    /\ h_strays = 0
    /\ Len(cfg_addrs) = 2 /\ cfg_addrs[1] # cfg_addrs[2]
    /\ items = <<Ok(cfg_addrs)>>

\* C10: when broadcast_addrs fails the stream yields one item, Err(Io), and
\* ends; the call opens no socket and sends no Request.
C10_NoAddrsOneError ==
    h_no_addrs =>
        /\ dp \in {"error", "ended"}
        /\ items = (IF dp = "ended" \/ err_items = <<>> THEN <<Err("Io")>> ELSE <<>>)
        /\ h_opened = 0 /\ sock = 0
        /\ h_requests = <<>>

\* a failed call, after an earlier call that had sent a Request, has ended
C10_Witness ==
    /\ h_no_addrs
    /\ dp = "ended"
    /\ h_keys # <<>>
    /\ nsock >= 1

\* the current call got its targets: it is past the first try_bstream!
CallStarted == dp \in {"stream", "ended"} /\ ~h_no_addrs

\* C11: a call of discover_peers generates one key pair: the key of the call
\* is the last one generated, every Request the call has sent, to whatever
\* target, carries it, and every datagram the call has read was unsealed
\* with the secret key generated with it.
C11_OneKeyPairPerCall ==
    /\ Len(h_keys) <= calls
    /\ CallStarted =>
        /\ h_keys # <<>> /\ our_pk = Last(h_keys)
        /\ our_sk = SecretOf(our_pk)
        /\ \A i \in 1..Len(h_requests) :
            /\ h_requests[i].call = calls
            /\ deserialize(h_requests[i].bytes) = Request(our_pk)
        /\ \A i \in 1..Len(h_reads) :
            /\ h_reads[i].call = calls
            /\ h_reads[i].pk = our_pk
            /\ h_reads[i].sk = SecretOf(our_pk)

\* the second call has sent its Request to two targets and read a reply
C11_Witness ==
    /\ calls = 2
    /\ Len(h_requests) = 2
    /\ h_requests[1].to # h_requests[2].to
    /\ h_requests[1].from # h_requests[2].from
    /\ Len(h_reads) = 1

\* the datagram is a Response sealed for public key k
SealedResponseFor(bytes, k) ==
    anonymously_decrypt(SecretOf(k), bytes, k).type = "Response"

\* C12: the calls of discover_peers have different key pairs, and a branch
\* that reads a Response sealed for the key of another call yields
\* Err(InvalidResponse), not a success.
C12_RoundsIndependent ==
    /\ \A i, j \in 1..Len(h_keys) : h_keys[i] = h_keys[j] => i = j
    /\ \A i \in 1..Len(h_reads) :
        \A k \in Range(h_keys) \ {h_reads[i].pk} :
            SealedResponseFor(h_reads[i].bytes, k) =>
                /\ h_reads[i].item = Err("InvalidResponse")
                /\ \E j \in 1..Len(items) : items[j] = h_reads[i].item

\* a branch of the second call has read a Response sealed for the first
\* call's key and the stream has yielded the failure
C12_Witness ==
    /\ Len(h_keys) = 2
    /\ Len(h_reads) = 1
    /\ SealedResponseFor(h_reads[1].bytes, h_keys[1])
    /\ h_reads[1].pk = h_keys[2]
    /\ items = <<Err("InvalidResponse")>>

\* the targets of the current call whose branch has yielded its item
TargetsDone ==
    Len(h_targets) - Len(broadcast_to) - (IF stage = "next" THEN 0 ELSE 1)

\* C13: the stream yields one item for each target whose branch is over, a
\* success or a failure; when it ends it has yielded as many items as
\* broadcast_addrs returned targets, none for no target.
C13_OneItemPerTarget ==
    CallStarted =>
        /\ Len(broadcast_to) <= Len(h_targets)
        /\ broadcast_to = SubSeq(h_targets, Len(h_targets) - Len(broadcast_to) + 1,
                                 Len(h_targets))
        /\ Len(items) = TargetsDone
        /\ \A i \in 1..Len(items) :
            \/ items[i].ok
            \/ items[i].err \in {"Io", "InvalidResponse"}
        /\ dp = "ended" => Len(items) = Len(h_targets)

\* a stream over two targets has ended: the first branch failed, the second
\* yielded a success
C13_Witness ==
    /\ CallStarted /\ dp = "ended"
    /\ Len(h_targets) = 2
    /\ Len(items) = 2
    /\ ~items[1].ok /\ items[2].ok

\* C14: the branches of a call are concurrent: while one branch is waiting
\* for its reply, the branch of the next target can open its socket (and go
\* on to send its Request) without that reply.
C14_BranchesConcurrent ==
    (dp = "stream" /\ stage = "recv" /\ broadcast_to # <<>>)
        => ENABLED (branch_sock \/ branch_sock_err)

\* what the last closure makes of a datagram unsealed with the call's key
Unsealed(r) == anonymously_decrypt(r.sk, r.bytes, r.pk)

\* C15: a branch sends its Request once and reads one datagram.  The item
\* it yields is Ok(list) if the datagram unseals to Response(list) and
\* Err(InvalidResponse) otherwise, also when it unseals to a Request; after
\* a read the branch is over: no second Request, no second read.
C15_SingleShotBranch ==
    /\ \A i, j \in 1..Len(h_requests) :
        h_requests[i].from = h_requests[j].from => i = j
    /\ \A i, j \in 1..Len(h_reads) :
        h_reads[i].sock = h_reads[j].sock => i = j
    /\ \A i \in 1..Len(h_reads) :
        LET r == h_reads[i]
        IN  /\ r.sock # sock
            /\ \E j \in 1..Len(h_requests) : h_requests[j].from = r.sock
            /\ \E j \in 1..Len(items) : items[j] = r.item
            /\ r.item = (IF Unsealed(r).type = "Response"
                         THEN Ok(Unsealed(r).addrs)
                         ELSE Err("InvalidResponse"))
    /\ Len(h_reads) <= Len(items)

\* the branch read a datagram that unseals to a Request and yielded
\* InvalidResponse; the server's reply to its Request was not read
C15_Witness ==
    /\ dp = "ended"
    /\ Len(h_requests) = 1
    /\ Len(h_reads) = 1
    /\ Unsealed(h_reads[1]).type = "Request"
    /\ items = <<Err("InvalidResponse")>>
    /\ \E i \in 1..Len(sent) : sent[i].to = h_reads[1].sock

\* C16: a drain pass whose receives do not fail receives the n datagrams
\* that were waiting, no more and no fewer, in the order they arrived,
\* queues their Requests in that order, and returns: what is waiting after
\* it arrived later.
C16_DrainTerminates ==
    (ret # "none" /\ h_io_at # "recv") =>
        /\ Len(h_drained) = Len(h_listener0)
        /\ \A i \in 1..Len(h_drained) : h_drained[i] = h_listener0[i]
        /\ \A i, j \in 1..Len(h_drained) : i < j => h_drained[i].id < h_drained[j].id
        /\ \A i \in 1..Len(h_drained) :
            \A j \in 1..Len(listener) : h_drained[i].id < listener[j].id
        /\ SubSeq(h_flush0, Len(h_clients0) + 1, Len(h_flush0)) = requests_of(h_listener0)

\* a poll found two datagrams waiting, received both and returned NotReady
C16_Witness ==
    /\ ret = "NotReady"
    /\ Len(h_listener0) = 2
    /\ h_drained = h_listener0
    /\ listener = <<>>

\* the datagrams received so far that were no well-formed Request
InvalidReceived == nid - Len(listener) - Len(h_accepted)

\* the longest datagram a peer sends that is no well-formed Request
LongestInvalid ==
    CHOOSE n \in {Len(d.bytes) : d \in {e \in PeerDatagrams : ~IsRequest(e.bytes)}} :
        \A d \in PeerDatagrams : ~IsRequest(d.bytes) => Len(d.bytes) <= n

\* C17: the server's logging is bounded: it does not write a record for
\* every invalid datagram (after as many invalid datagrams as the peers can
\* send, fewer records than datagrams), and a record does not hold the whole
\* of the longest datagram.
C17_LoggingBounded ==
    /\ InvalidReceived >= MaxDatagrams => Len(log) < InvalidReceived
    /\ \A i \in 1..Len(log) : Len(log[i]) < LongestInvalid

\* an entry with this id is in the queue
Queued(id) == \E i \in 1..Len(clients) : clients[i].id = id

\* C18: no entry is starved: an entry that is in the queue is popped and
\* leaves it (sent or dropped) at some later time.
C18_NoStarvation == \A id \in 1..MaxPending : Queued(id) ~> ~Queued(id)

\* C19: every datagram the server has sent goes to the sender of a
\* well-formed Request received before and is sealed for the key of that
\* Request; no Request is answered twice, and an entry still queued (pushed
\* back after a would-block) has not been answered.
C19_AtMostOneResponse ==
    /\ \A i, j \in 1..Len(sent) : sent[i].id = sent[j].id => i = j
    /\ \A i \in 1..Len(sent) :
        \E j \in 1..Len(h_accepted) :
            /\ h_accepted[j].id = sent[i].id
            /\ h_accepted[j].addr = sent[i].to
            /\ Len(sent[i].bytes) >= 1
            /\ sent[i].bytes[1] = BoxHeader(h_accepted[j].pk)
    /\ \A i, j \in 1..Len(h_accepted) : h_accepted[i].id = h_accepted[j].id => i = j
    /\ DistinctIds(clients)
    /\ \A i \in 1..Len(clients) : NotIn(clients[i].id, sent)

\* an entry that an earlier poll had pushed back is answered by this poll,
\* after an identical Request of the same peer
C19_Witness ==
    /\ Len(SentThisPoll) = 2
    /\ SentThisPoll[1].to = SentThisPoll[2].to
    /\ SentThisPoll[1].bytes = SentThisPoll[2].bytes
    /\ \E j \in 1..Len(h_clients0) : h_clients0[j].id = SentThisPoll[2].id
    /\ NotIn(SentThisPoll[1].id, h_clients0)

\* the datagram opens, with the key pair of the current call, to a Response
ValidReply(bytes) == anonymously_decrypt(our_sk, bytes, our_pk).type = "Response"

\* C20: what a branch reads is the first datagram that reached its socket,
\* whoever sent it.  If that datagram is no valid sealed Response the branch
\* yields InvalidResponse, and a genuine reply that reached the socket after
\* it is not read and gives no success item.
C20_FirstDatagramWins ==
    \A i \in 1..Len(h_reads) :
        h_reads[i].sock = EphemeralAddr(nsock) =>
            /\ h_arrivals # <<>>
            /\ h_reads[i].bytes = h_arrivals[1]
            /\ sock = 0
            /\ \A j \in 1..Len(h_reads) : h_reads[j].sock = h_reads[i].sock => j = i
            /\ ~ValidReply(h_arrivals[1]) =>
                /\ h_reads[i].item = Err("InvalidResponse")
                /\ \E j \in 1..Len(items) : items[j] = Err("InvalidResponse")
                /\ Len(h_targets) = 1 => \A j \in 1..Len(items) : ~items[j].ok

\* a datagram that is no sealed box reached the socket before the server's
\* reply: the stream yielded InvalidResponse and ended
C20_Witness ==
    /\ dp = "ended"
    /\ Len(h_arrivals) = 2
    /\ ~ValidReply(h_arrivals[1])
    /\ \E i \in 1..Len(sent) :
        sent[i].bytes = h_arrivals[2] /\ sent[i].to = EphemeralAddr(nsock)
    /\ anonymously_decrypt(our_sk, h_arrivals[2], our_pk) = Response(cfg_addrs)
    /\ items = <<Err("InvalidResponse")>>

====
